---------------------------- MODULE Spec2Model ----------------------------
(***************************************************************************)
(* warehouse-control: the request pipeline (Auth middleware, RequireRole   *)
(* gate, item / user / audit handlers), the item service and repository,   *)
(* and the PostgreSQL side the repository talks to (connection pool with   *)
(* the session setting app.current_user_id, the items table, the history   *)
(* triggers and the item_history table with its foreign keys).             *)
(*                                                                         *)
(* The repository holds two definitions of router.New (router.go and a     *)
(* second file of package router) and an item Service whose methods do not *)
(* take the userID that the item handler passes.  Both routers and both    *)
(* shapes of the Service are modelled; Init chooses among them.            *)
(***************************************************************************)
EXTENDS Integers, Sequences, FiniteSets, TLC

VARIABLES
  routerBuild,   \* which definition of router.New built the engine
  serviceBuild,  \* which shape of the item Service the handler calls
  routes,        \* the engine's route table: route key -> handler chain
  engineUp,      \* FALSE when router.New panicked (the process never serves)
  ttl,           \* cfg.JWT.TTL, in seconds
  now,           \* the clock, in seconds
  traffic,       \* the <<route key, Authorization header>> pairs clients send
  quota,         \* requests the clients still send
  req,           \* per request slot: the gin context and the handler's position
  users,         \* table users
  items,         \* table items
  item_history,  \* table item_history, in insertion order
  nextItemId,    \* the next id gen_random_uuid() hands to items
  conn,          \* per pooled connection: the session setting app.current_user_id
  proc           \* the process: main, the ListenAndServe goroutine, the databases

vars == <<routerBuild, serviceBuild, routes, engineUp, ttl, now, traffic, quota, req,
          users, items, item_history, nextItemId, conn, proc>>

-----------------------------------------------------------------------------
(* Bounds *)

MaxTime == 2
MaxRequests == 2
MaxAuditRequests == 3
MaxInFlight == 2
MaxConns == 2
MaxTTL == 2
MaxCredRequests == 3
MaxSlaves == 2

Req == 1..MaxInFlight
Conns == 1..MaxConns

-----------------------------------------------------------------------------
(* Errors (the messages the responses carry) *)

NilErr == ""
ErrNoToken == "missing token"
ErrInvalidToken == "invalid token"
ErrInvalidTokenFormat == "invalid token format"
ErrExpiredToken == "token had expired"
ErrRoleNotFound == "role not found in context"
ErrInvalidRole == "invalid role type"
ErrAccessDenied == "access denied"

\* errors jwt.Parse returns
JwtErrTokenMalformed == "token is malformed"
JwtErrTokenUnverifiable == "token is unverifiable: error while executing keyfunc: invalid token"
JwtErrTokenSignatureInvalid == "token signature is invalid"
JwtErrTokenExpired == "token has invalid claims: token is expired"

StatusOK == 200
StatusCreated == 201
StatusBadRequest == 400
StatusUnauthorized == 401
StatusForbidden == 403
StatusNotFound == 404
StatusConflict == 409
StatusInternalServerError == 500

-----------------------------------------------------------------------------
(* Tokens and Authorization headers *)

ServerSecret == "server-secret"
OtherSecret == "other-secret"
Secrets == {ServerSecret, OtherSecret}

Algs == {"HS256", "RS256", "none"}
HMACFamily == {"HS256", "HS384", "HS512"}

NoExp == -1
ExpValues == {NoExp} \cup (1..(MaxTime + 1))

ClaimAbsent == "<absent>"
UUIDs == {"u1", "u2", "u3"}
UserIdClaims == {"u1", "u2", "not-a-uuid", ClaimAbsent}
RoleClaims == {"admin", "manager", "viewer", ClaimAbsent}

GarbageToken ==
  [form |-> "garbage", alg |-> "none", key |-> OtherSecret, exp |-> NoExp,
   user_id |-> ClaimAbsent, role |-> ClaimAbsent]

JwtTokens ==
  [form : {"jwt"}, alg : Algs, key : Secrets, exp : ExpValues,
   user_id : UserIdClaims, role : RoleClaims]

Tokens == JwtTokens \cup {GarbageToken}

\* A header is the Authorization value split on " ": n parts, parts[0] = scheme,
\* parts[1] = tok.  n = 0 stands for the absent (empty) header.
NoHeader == [n |-> 0, scheme |-> "", tok |-> GarbageToken]
Bearer(t) == [n |-> 2, scheme |-> "Bearer", tok |-> t]

Jwt(uid, role, exp) ==
  [form |-> "jwt", alg |-> "HS256", key |-> ServerSecret, exp |-> exp,
   user_id |-> uid, role |-> role]

OddHeaders(t) ==
  { NoHeader,
    [n |-> 1, scheme |-> "Bearer", tok |-> GarbageToken],
    [n |-> 3, scheme |-> "Bearer", tok |-> t],
    [n |-> 2, scheme |-> "Basic", tok |-> t] }

AllHeaders == OddHeaders(Jwt("u1", "admin", NoExp)) \cup { Bearer(t) : t \in Tokens }

\* the tokens login has issued to the three registered users
IssuedTokens ==
  { Jwt("u1", "admin", MaxTime + 1), Jwt("u2", "manager", MaxTime + 1),
    Jwt("u3", "viewer", MaxTime + 1) }

\* what clients of the pipeline present: the issued tokens, an issued token that
\* expires at time 1, forged and damaged tokens, and ill-formed headers
ClientHeaders ==
  OddHeaders(Jwt("u1", "admin", MaxTime + 1))
    \cup { Bearer(t) : t \in IssuedTokens }
    \cup { Bearer(Jwt("u1", "admin", 1)),
           Bearer([Jwt("u1", "admin", MaxTime + 1) EXCEPT !.key = OtherSecret]),
           Bearer([Jwt("u1", "admin", MaxTime + 1) EXCEPT !.alg = "none"]),
           Bearer([Jwt("u1", "admin", MaxTime + 1) EXCEPT !.alg = "RS256"]),
           Bearer(Jwt("u1", ClaimAbsent, MaxTime + 1)),
           Bearer(Jwt("not-a-uuid", "admin", MaxTime + 1)),
           Bearer(Jwt(ClaimAbsent, "admin", MaxTime + 1)),
           Bearer(GarbageToken) }

-----------------------------------------------------------------------------
(* validateToken *)

\* the keyfunc handed to jwt.Parse: the key, or an error for a non-HMAC method
KeyFuncAccepts_Any(tok) == TRUE

KeyFuncAccepts(tok) == tok.alg \in HMACFamily

\* HMAC verification of the signature under the key the keyfunc returned
SignatureOK_AnyKey(tok, secret) == TRUE

SignatureOK(tok, secret) == tok.key = secret

\* the exp claim, when present, must lie after the verification instant
TokenExpired(tok, t) == tok.exp # NoExp /\ t >= tok.exp

jwtParse(tok, secret, t) ==
  IF tok.form # "jwt" THEN JwtErrTokenMalformed
  ELSE IF ~KeyFuncAccepts(tok) THEN JwtErrTokenUnverifiable
  ELSE IF ~SignatureOK(tok, secret) THEN JwtErrTokenSignatureInvalid
  ELSE IF TokenExpired(tok, t) THEN JwtErrTokenExpired
  ELSE NilErr

\* errors.Is(err, jwt.ErrTokenExpired) -> ErrExpiredToken, any other error as is
MapParseError_ExpiredAsInvalid(err) ==
  IF err = JwtErrTokenExpired THEN ErrInvalidToken ELSE err

MapParseError(err) ==
  IF err = JwtErrTokenExpired THEN ErrExpiredToken ELSE err

\* "u0" is a well-formed UUID that names no user
WellFormedUUIDs == UUIDs \cup {"u0"}

uuidParse_StoredUser(s) == \E u \in users : u.id = s

uuidParse(s) == s \in WellFormedUUIDs

Unset == "<unset>"
NoClaims(err) == [userID |-> Unset, role |-> Unset, err |-> err]

validateToken(tok, secret, t) ==
  LET err == jwtParse(tok, secret, t) IN
  IF err # NilErr THEN NoClaims(MapParseError(err))
  ELSE IF tok.user_id = ClaimAbsent THEN NoClaims(ErrInvalidToken)
  ELSE IF ~uuidParse(tok.user_id) THEN NoClaims(ErrInvalidToken)
  ELSE IF tok.role = ClaimAbsent THEN NoClaims(ErrInvalidToken)
  ELSE [userID |-> tok.user_id, role |-> tok.role, err |-> NilErr]

-----------------------------------------------------------------------------
(* Responses and the gin context *)

Response(status, msg) == [status |-> status, msg |-> msg]

\* what running one handler function does to the request: the context keys it
\* leaves bound, the responses it writes, and whether it aborted the chain
Effect(ctx, resps, abort) == [ctx |-> ctx, resps |-> resps, abort |-> abort]

Fail(ctx, status, err) == Effect(ctx, <<Response(status, err)>>, FALSE)

FailAbort_NoAbort(ctx, status, err) == Fail(ctx, status, err)

FailAbort(ctx, status, err) == [Fail(ctx, status, err) EXCEPT !.abort = TRUE]

EmptyContext == [userID |-> Unset, role |-> Unset]

\* c.Set("userID", userID); c.Set("role", role)
AuthBind_OnlyUserID(ctx, userID, role) == [ctx EXCEPT !.userID = userID]

AuthBind(ctx, userID, role) == [userID |-> userID, role |-> role]

\* Auth's checks of the Authorization header, made before the token is verified
HeaderError_EmptyAsFormat(hdr) ==
  IF hdr.n # 2 \/ hdr.scheme # "Bearer" THEN ErrInvalidTokenFormat ELSE NilErr

HeaderError_SchemeOnly(hdr) ==
  IF hdr.n = 0 THEN ErrNoToken
  ELSE IF hdr.scheme # "Bearer" THEN ErrInvalidTokenFormat
  ELSE NilErr

HeaderError(hdr) ==
  IF hdr.n = 0 THEN ErrNoToken
  ELSE IF hdr.n # 2 \/ hdr.scheme # "Bearer" THEN ErrInvalidTokenFormat
  ELSE NilErr

\* middleware.Auth(secret, ttl) applied to a request carrying header hdr at time t
AuthEffect(ctx, hdr, secret, t) ==
  IF HeaderError(hdr) # NilErr
    THEN FailAbort(ctx, StatusUnauthorized, HeaderError(hdr))
  ELSE LET v == validateToken(hdr.tok, secret, t) IN
       IF v.err # NilErr THEN FailAbort(ctx, StatusUnauthorized, v.err)
       ELSE Effect(AuthBind(ctx, v.userID, v.role), <<>>, FALSE)

\* the membership test of RequireRole: allowed[role]
RoleAllowed_AdminExempt(allowed, role) == role \in allowed \/ role = "admin"

RoleAllowed(allowed, role) == role \in allowed

\* a context value that is not a string (no code path binds one; the gate checks)
NonString == "<non-string>"

\* middleware.RequireRole(roles...) applied to a request context
RequireRoleEffect_UnsetPasses(ctx, allowed) ==
  IF ctx.role = Unset THEN Effect(ctx, <<>>, FALSE)
  ELSE IF ctx.role = NonString THEN FailAbort(ctx, StatusForbidden, ErrInvalidRole)
  ELSE IF ~RoleAllowed(allowed, ctx.role)
    THEN FailAbort(ctx, StatusForbidden, ErrAccessDenied)
  ELSE Effect(ctx, <<>>, FALSE)

RequireRoleEffect(ctx, allowed) ==
  IF ctx.role = Unset THEN FailAbort(ctx, StatusForbidden, ErrRoleNotFound)
  ELSE IF ctx.role = NonString THEN FailAbort(ctx, StatusForbidden, ErrInvalidRole)
  ELSE IF ~RoleAllowed(allowed, ctx.role)
    THEN FailAbort(ctx, StatusForbidden, ErrAccessDenied)
  ELSE Effect(ctx, <<>>, FALSE)

-----------------------------------------------------------------------------
(* router.New: the route table *)

KeyGetAll == "GET /api/items"
KeyGetByID == "GET /api/items/:id"
KeyCreate == "POST /api/items"
KeyUpdate == "PUT /api/items/:id"
KeyDelete == "DELETE /api/items/:id"
KeyUser == "GET /api/users/:id"
KeyHistory == "GET /api/audit/items/:id/history"
KeyCompare == "POST /api/audit/items/compare"
KeyRegister == "POST /api/auth/register"
KeyLogin == "POST /api/auth/login"

\* the routes of items, users and audit, and with the auth routes all of them
ResourceKeys == {KeyGetAll, KeyGetByID, KeyCreate, KeyUpdate, KeyDelete, KeyUser,
                 KeyHistory, KeyCompare}
RouteKeys == ResourceKeys \cup {KeyRegister, KeyLogin}

GroupNames == {"auth", "items", "admin", "manager", "users", "audit"}

\* handler functions, as the chains hold them
AuthMW == [kind |-> "Auth", roles |-> {}, name |-> "Auth"]
RequireRoleMW(roles) == [kind |-> "RequireRole", roles |-> roles, name |-> "RequireRole"]
H(name) == [kind |-> "Handler", roles |-> {}, name |-> name]

\* the calls New makes on the engine, in order
Use(g, mw) == [op |-> "Use", group |-> g, parent |-> g, key |-> "", hs |-> <<mw>>]
Group(g, parent) == [op |-> "Group", group |-> g, parent |-> parent, key |-> "", hs |-> <<>>]
Handle(g, key, hs) == [op |-> "Handle", group |-> g, parent |-> g, key |-> key, hs |-> hs]

\* router.New of internal/api/router/router.go
RouterGoScript ==
  << Handle("auth", KeyRegister, <<H("auth.Register")>>),
     Handle("auth", KeyLogin, <<H("auth.Login")>>),
     Handle("items", KeyGetAll, <<H("item.GetAll")>>),
     Handle("items", KeyGetByID, <<H("item.GetByID")>>),
     Use("items", AuthMW),
     Group("admin", "items"),
     Use("admin", RequireRoleMW({"admin"})),
     Handle("admin", KeyCreate, <<H("item.Create")>>),
     Handle("admin", KeyUpdate, <<H("item.Update")>>),
     Handle("admin", KeyDelete, <<H("item.Delete")>>),
     Group("manager", "items"),
     Use("manager", RequireRoleMW({"manager"})),
     Handle("manager", KeyCreate, <<H("item.Create")>>),
     Handle("manager", KeyUpdate, <<H("item.Update")>>),
     Use("audit", AuthMW),
     Use("audit", RequireRoleMW({"admin"})),
     Handle("audit", KeyHistory, <<H("audit.GetHistory")>>),
     Handle("audit", KeyCompare, <<H("audit.CompareVersions")>>) >>

\* router.New of the second router file: the role set is given per route
RouterScript_DeleteForManager ==
  << Handle("auth", KeyRegister, <<H("auth.Register")>>),
     Handle("auth", KeyLogin, <<H("auth.Login")>>),
     Handle("items", KeyGetAll, <<H("item.GetAll")>>),
     Handle("items", KeyGetByID, <<H("item.GetByID")>>),
     Use("items", AuthMW),
     Handle("items", KeyCreate, <<RequireRoleMW({"admin", "manager"}), H("item.Create")>>),
     Handle("items", KeyUpdate, <<RequireRoleMW({"admin", "manager"}), H("item.Update")>>),
     Handle("items", KeyDelete, <<RequireRoleMW({"admin", "manager"}), H("item.Delete")>>),
     Use("users", AuthMW),
     Handle("users", KeyUser, <<H("user.GetByID")>>),
     Use("audit", AuthMW),
     Use("audit", RequireRoleMW({"admin", "manager"})),
     Handle("audit", KeyHistory, <<H("audit.GetHistory")>>),
     Handle("audit", KeyCompare, <<H("audit.CompareVersions")>>) >>

RouterScript ==
  << Handle("auth", KeyRegister, <<H("auth.Register")>>),
     Handle("auth", KeyLogin, <<H("auth.Login")>>),
     Handle("items", KeyGetAll, <<H("item.GetAll")>>),
     Handle("items", KeyGetByID, <<H("item.GetByID")>>),
     Use("items", AuthMW),
     Handle("items", KeyCreate, <<RequireRoleMW({"admin", "manager"}), H("item.Create")>>),
     Handle("items", KeyUpdate, <<RequireRoleMW({"admin", "manager"}), H("item.Update")>>),
     Handle("items", KeyDelete, <<RequireRoleMW({"admin"}), H("item.Delete")>>),
     Use("users", AuthMW),
     Handle("users", KeyUser, <<H("user.GetByID")>>),
     Use("audit", AuthMW),
     Use("audit", RequireRoleMW({"admin"})),
     Handle("audit", KeyHistory, <<H("audit.GetHistory")>>),
     Handle("audit", KeyCompare, <<H("audit.CompareVersions")>>) >>

\* gin's engine while New runs: each group's middleware so far, the routes
\* registered so far (<<>>: none), and whether a registration panicked
NewEngine ==
  [groups |-> [g \in GroupNames |-> <<>>],
   routes |-> [k \in RouteKeys |-> <<>>],
   panicked |-> FALSE]

\* one call on the engine.  Use appends to the group's middleware; Group copies
\* the parent's middleware as it is at that moment; Handle stores the group's
\* middleware followed by the route's handlers, and panics when the method and
\* path already have handlers.
Register(e, call) ==
  IF e.panicked THEN e
  ELSE IF call.op = "Use"
    THEN [e EXCEPT !.groups[call.group] = @ \o call.hs]
  ELSE IF call.op = "Group"
    THEN [e EXCEPT !.groups[call.group] = e.groups[call.parent]]
  ELSE IF e.routes[call.key] # <<>>
    THEN [e EXCEPT !.panicked = TRUE]
  ELSE [e EXCEPT !.routes[call.key] = e.groups[call.group] \o call.hs]

RECURSIVE Build(_, _)
Build(e, script) ==
  IF script = <<>> THEN e ELSE Build(Register(e, Head(script)), Tail(script))

Routers == {"router.go", "router-per-route"}

New(build) ==
  Build(NewEngine, IF build = "router.go" THEN RouterGoScript ELSE RouterScript)

-----------------------------------------------------------------------------
(* Requests *)

NoTime == -1
BadId == 0
\* what a response carries as its result: nothing, an id, or a token
NoResult == [kind |-> "none"]
IdResult(id) == [kind |-> "id", id |-> id]
TokenResult(tok) == [kind |-> "token", token |-> tok]
NoUser == "<no row>"

GarbageBody == [form |-> "garbage", name |-> "", quantity |-> 0]
Bodies == {GarbageBody} \cup [form : {"json"}, name : {"", "bolt"}, quantity : -1..2]

IdleRequest ==
  [pc |-> "idle", route |-> "", hdr |-> NoHeader, idx |-> 0, ran |-> <<>>,
   ctx |-> EmptyContext, resps |-> <<>>, refused |-> FALSE, authAt |-> NoTime,
   id |-> BadId, body |-> GarbageBody, calls |-> <<>>,
   verified |-> FALSE, result |-> NoResult, found |-> FALSE, expTime |-> NoTime,
   user |-> NoUser]

Chain(q) == routes[q.route]
Current(r) == Chain(req[r])[req[r].idx]
At(r, name) == req[r].pc = "chain" /\ Current(r).name = name

\* gin's Context.Next: the handler function at idx has run with effect e; the
\* chain stops when it aborted or was the last one
Advance(q, e) ==
  LET stop == e.abort \/ q.idx = Len(Chain(q)) IN
  [q EXCEPT !.ran = Append(@, Chain(q)[q.idx].name),
            !.ctx = e.ctx,
            !.resps = @ \o e.resps,
            !.pc = IF stop THEN "done" ELSE "chain",
            !.idx = IF stop THEN @ ELSE @ + 1]

\* a final handler answers and returns
Respond(q, status, msg) ==
  [q EXCEPT !.pc = "done", !.resps = Append(@, Response(status, msg)), !.calls = <<>>]

Entered(q) == [q EXCEPT !.ran = Append(@, Chain(q)[q.idx].name)]

-----------------------------------------------------------------------------
(* The item Service *)

\* Service.Create / Update / Delete of service.go: one repository call
ServiceSrc(op) == <<op>>

\* the Service the item handler's interface declares (it receives userID):
\* the actor is attached to the session, then the mutation is executed
ServiceDeclared(op) == <<"SetCurrentUser", op>>

Services == {"service.go", "handler-interface"}

ServiceCalls(build, op) ==
  IF build = "service.go" THEN ServiceSrc(op) ELSE ServiceDeclared(op)

-----------------------------------------------------------------------------
(* PostgreSQL: tables, triggers, foreign keys *)

\* bcrypt.GenerateFromPassword: a digest of the password under a fresh salt,
\* stored with the salt
Salts == {"s1", "s2"}
hashPassword(password, salt) ==
  [alg |-> "bcrypt", salt |-> salt, digest |-> <<salt, password>>]

\* bcrypt.CompareHashAndPassword: the digest recomputed under the stored salt
verifyPassword_Always(password, hash) == TRUE

verifyPassword(password, hash) == hash.digest = <<hash.salt, password>>

SeedUsers ==
  { [id |-> "u1", username |-> "alice", role |-> "admin",
     password_hash |-> hashPassword("pw1", "s1")],
    [id |-> "u2", username |-> "bob", role |-> "manager",
     password_hash |-> hashPassword("pw2", "s1")],
    [id |-> "u3", username |-> "carol", role |-> "viewer",
     password_hash |-> hashPassword("pw1", "s2")] }

NullData == [null |-> TRUE]
to_jsonb(row) == row

\* current_setting('app.current_user_id')::UUID raises when the session never set
\* it; item_history.changed_by REFERENCES users (id)
TriggerOK_NoForeignKey(session) == session # Unset

TriggerOK(session) == session # Unset /\ \E u \in users : u.id = session

\* the rows the trigger functions insert; producer is not a column: it records
\* the actor of the request whose statement fired the trigger
log_item_insert(newRow, session, producer) ==
  [item_id |-> newRow.id, action |-> "INSERT", changed_by |-> session,
   old_data |-> NullData, new_data |-> to_jsonb(newRow), producer |-> producer]

log_item_update_NewAsOld(oldRow, newRow, session, producer) ==
  [item_id |-> newRow.id, action |-> "UPDATE", changed_by |-> session,
   old_data |-> to_jsonb(newRow), new_data |-> to_jsonb(newRow), producer |-> producer]

log_item_update(oldRow, newRow, session, producer) ==
  [item_id |-> newRow.id, action |-> "UPDATE", changed_by |-> session,
   old_data |-> to_jsonb(oldRow), new_data |-> to_jsonb(newRow), producer |-> producer]

log_item_delete(oldRow, session, producer) ==
  [item_id |-> oldRow.id, action |-> "DELETE", changed_by |-> session,
   old_data |-> to_jsonb(oldRow), new_data |-> NullData, producer |-> producer]

\* item_history.item_id REFERENCES items (id) ON DELETE CASCADE
OnDeleteCascade(hist, id) == SelectSeq(hist, LAMBDA h : h.item_id # id)

ItemRow(id) == CHOOSE i \in items : i.id = id
ItemExists(id) == \E i \in items : i.id = id

-----------------------------------------------------------------------------
(* Clients and the engine *)

\* a client sends a request; the engine looks the route up and starts its chain
Arrive(r) ==
  /\ engineUp
  /\ quota > 0
  /\ req[r].pc = "idle"
  /\ \E t \in traffic :
       /\ routes[t[1]] # <<>>
       /\ req' = [req EXCEPT ![r] =
                    [IdleRequest EXCEPT !.pc = "chain", !.route = t[1],
                                        !.hdr = t[2], !.idx = 1]]
  /\ quota' = quota - 1
  /\ UNCHANGED <<routerBuild, serviceBuild, routes, engineUp, ttl, now, traffic,
                 users, items, item_history, nextItemId, conn, proc>>

\* router.New panicked while main built the engine: nothing listens, the
\* client's request gets no response
Refused(r) ==
  /\ ~engineUp
  /\ quota > 0
  /\ req[r].pc = "idle"
  /\ \E t \in traffic :
       req' = [req EXCEPT ![r] =
                 [IdleRequest EXCEPT !.pc = "done", !.route = t[1],
                                     !.hdr = t[2], !.refused = TRUE]]
  /\ quota' = quota - 1
  /\ UNCHANGED <<routerBuild, serviceBuild, routes, engineUp, ttl, now, traffic,
                 users, items, item_history, nextItemId, conn, proc>>

\* the response is delivered and the request's context discarded
Complete(r) ==
  /\ req[r].pc = "done"
  /\ req' = [req EXCEPT ![r] = IdleRequest]
  /\ UNCHANGED <<routerBuild, serviceBuild, routes, engineUp, ttl, now, traffic, quota,
                 users, items, item_history, nextItemId, conn, proc>>

Tick ==
  /\ now < MaxTime
  /\ now' = now + 1
  /\ UNCHANGED <<routerBuild, serviceBuild, routes, engineUp, ttl, traffic, quota, req,
                 users, items, item_history, nextItemId, conn, proc>>

Database == <<users, items, item_history, nextItemId, conn>>
Fixed == <<routerBuild, serviceBuild, routes, engineUp, ttl, traffic, proc>>

-----------------------------------------------------------------------------
(* Middleware *)

Auth(r) ==
  /\ At(r, "Auth")
  /\ LET q == req[r]
         e == AuthEffect(q.ctx, q.hdr, ServerSecret, now)
     IN req' = [req EXCEPT ![r] =
                  [Advance(q, e) EXCEPT !.authAt = now,
                                        !.verified = (HeaderError(q.hdr) = NilErr)]]
  /\ UNCHANGED <<Fixed, now, quota, Database>>

RequireRole(r) ==
  /\ At(r, "RequireRole")
  /\ LET q == req[r]
         e == RequireRoleEffect(q.ctx, Current(r).roles)
     IN req' = [req EXCEPT ![r] = Advance(q, e)]
  /\ UNCHANGED <<Fixed, now, quota, Database>>

-----------------------------------------------------------------------------
(* Item handlers *)

\* validate:"required" on name; validate:"required,min=0" on quantity
\* (required rejects the zero value of an int)
Validate(body) == body.name # "" /\ body.quantity # 0 /\ body.quantity >= 0

\* c.Param("id"): BadId is a string uuid.Parse rejects, nextItemId the id of no item
IdParams == {BadId} \cup (1..nextItemId)

\* ShouldBindJSON and validator.Struct, as Create and Update start
BodyError(body) ==
  IF body.form # "json" THEN "invalid request body"
  ELSE IF ~Validate(body) THEN "validation error"
  ELSE NilErr

\* Handler.Create up to the call of the service
HandlerCreate(r) ==
  /\ At(r, "item.Create")
  /\ \E body \in Bodies :
       LET q == [Entered(req[r]) EXCEPT !.body = body] IN
       req' = [req EXCEPT ![r] =
         IF BodyError(body) # NilErr
           THEN Respond(q, StatusBadRequest, BodyError(body))
         ELSE IF q.ctx.userID = Unset
           THEN Respond(q, StatusUnauthorized, "userID not found in context")
         ELSE [q EXCEPT !.pc = "repo",
                        !.calls = ServiceCalls(serviceBuild, "CreateItem")]]
  /\ UNCHANGED <<Fixed, now, quota, Database>>

\* Handler.Update up to the call of the service
HandlerUpdate(r) ==
  /\ At(r, "item.Update")
  /\ \E body \in Bodies, id \in IdParams :
       LET q == [Entered(req[r]) EXCEPT !.body = body] IN
       req' = [req EXCEPT ![r] =
         IF BodyError(body) # NilErr
           THEN Respond(q, StatusBadRequest, BodyError(body))
         ELSE IF id = BadId
           THEN Respond(q, StatusBadRequest, "invalid item ID")
         ELSE IF q.ctx.userID = Unset
           THEN Respond(q, StatusUnauthorized, "userID not found in context")
         ELSE [q EXCEPT !.pc = "repo", !.id = id,
                        !.calls = ServiceCalls(serviceBuild, "UpdateItem")]]
  /\ UNCHANGED <<Fixed, now, quota, Database>>

\* Handler.Delete up to the call of the service
HandlerDelete(r) ==
  /\ At(r, "item.Delete")
  /\ \E id \in IdParams :
       LET q == Entered(req[r]) IN
       req' = [req EXCEPT ![r] =
         IF id = BadId
           THEN Respond(q, StatusBadRequest, "invalid item ID")
         ELSE IF q.ctx.userID = Unset
           THEN Respond(q, StatusUnauthorized, "userID not found in context")
         ELSE [q EXCEPT !.pc = "repo", !.id = id,
                        !.calls = ServiceCalls(serviceBuild, "DeleteItem")]]
  /\ UNCHANGED <<Fixed, now, quota, Database>>

HandlerGetAll(r) ==
  /\ At(r, "item.GetAll")
  /\ LET q == Entered(req[r]) IN
     req' = [req EXCEPT ![r] =
       IF items = {} THEN Respond(q, StatusNotFound, "get all items: no items found")
       ELSE Respond(q, StatusOK, NilErr)]
  /\ UNCHANGED <<Fixed, now, quota, Database>>

HandlerGetByID(r) ==
  /\ At(r, "item.GetByID")
  /\ \E id \in IdParams :
       LET q == Entered(req[r]) IN
       req' = [req EXCEPT ![r] =
         IF id = BadId THEN Respond(q, StatusBadRequest, "invalid item ID")
         ELSE IF ~ItemExists(id)
           THEN Respond(q, StatusNotFound, "get item by id: item not found")
         ELSE Respond(q, StatusOK, NilErr)]
  /\ UNCHANGED <<Fixed, now, quota, Database>>

-----------------------------------------------------------------------------
(* User and audit handlers *)

UserGetByID(r) ==
  /\ At(r, "user.GetByID")
  /\ \E p \in {"u1", "u0", "not-a-uuid"} :
       LET q == Entered(req[r]) IN
       req' = [req EXCEPT ![r] =
         IF ~uuidParse(p) THEN Respond(q, StatusBadRequest, "invalid user ID")
         ELSE IF ~\E u \in users : u.id = p
           THEN Respond(q, StatusInternalServerError,
                        "failed to get user: get user by id: user not found")
         ELSE Respond(q, StatusOK, NilErr)]
  /\ UNCHANGED <<Fixed, now, quota, Database>>

GetHistory(r) ==
  /\ At(r, "audit.GetHistory")
  /\ \E id \in IdParams :
       LET q == Entered(req[r]) IN
       req' = [req EXCEPT ![r] =
         IF id = BadId THEN Respond(q, StatusBadRequest, "invalid item ID")
         ELSE Respond(q, StatusOK, NilErr)]
  /\ UNCHANGED <<Fixed, now, quota, Database>>

CompareVersions(r) ==
  /\ At(r, "audit.CompareVersions")
  /\ \E form \in {"garbage", "json-of-non-objects", "json"} :
       LET q == Entered(req[r]) IN
       req' = [req EXCEPT ![r] =
         IF form = "garbage" THEN Respond(q, StatusBadRequest, "invalid request body")
         ELSE IF form = "json-of-non-objects"
           THEN Respond(q, StatusInternalServerError, "failed to compare versions")
         ELSE Respond(q, StatusOK, NilErr)]
  /\ UNCHANGED <<Fixed, now, quota, Database>>

\* the service of request r is about to make this call
InRepo(r, call) ==
  /\ req[r].pc = "repo"
  /\ req[r].calls # <<>>
  /\ Head(req[r].calls) = call

-----------------------------------------------------------------------------
(* Registration and login: auth handler, user Service, user Repository *)

ErrUserAlreadyExists == "user already exists"
ErrInvalidCredentials == "invalid credentials"
ErrUserNotFound == "user not found"
ErrInternal == "internal server error"

Usernames == {"alice", "bob"}
Passwords == {"pw1", "pw2"}

\* users.role CHECK (role IN ('admin', 'manager', 'viewer'))
RoleSet_WithRoot == {"admin", "manager", "viewer", "root"}

RoleSet == {"admin", "manager", "viewer"}

GarbageCred == [form |-> "garbage", username |-> "", role |-> "", password |-> ""]

\* RegisterRequest and LoginRequest as clients send them
RegisterBodies ==
  {GarbageCred}
    \cup [form : {"json"}, username : Usernames, role : {"admin", "viewer", "root"},
          password : Passwords]
    \cup {[form |-> "json", username |-> "", role |-> "admin", password |-> "pw1"],
          [form |-> "json", username |-> "alice", role |-> "", password |-> "pw1"]}

LoginBodies ==
  {GarbageCred}
    \cup [form : {"json"}, username : Usernames, role : {""}, password : Passwords]
    \cup {[form |-> "json", username |-> "alice", role |-> "", password |-> ""]}

\* ShouldBindJSON and validator.Struct of Register (with role) and Login
CredError(body, withRole) ==
  IF body.form # "json" THEN "invalid request body"
  ELSE IF body.username = "" \/ body.password = "" \/ (withRole /\ body.role = "")
    THEN "validation error"
  ELSE NilErr

\* a final handler answers with a result
Reply(q, status, result) ==
  [Respond(q, status, NilErr) EXCEPT !.result = result]

\* SELECT EXISTS(SELECT 1 FROM users WHERE username = $1)
UsernameTaken_Never(table, username) == FALSE

UsernameTaken(table, username) == \E u \in table : u.username = username

\* users.id DEFAULT gen_random_uuid(): an id no row holds
UserIdOrder == <<"u1", "u2", "u3">>
NewUserId == UserIdOrder[Cardinality(users) + 1]

\* Handler.Register's answer to an error of Service.Register
RegisterFailure(err) ==
  IF err = ErrUserAlreadyExists THEN Response(StatusConflict, ErrUserAlreadyExists)
  ELSE Response(StatusInternalServerError, ErrInternal)

\* Handler.Register up to the call of the service
HandlerRegister(r) ==
  /\ At(r, "auth.Register")
  /\ \E body \in RegisterBodies :
       LET q == Entered(req[r]) IN
       req' = [req EXCEPT ![r] =
         IF CredError(body, TRUE) # NilErr
           THEN Respond(q, StatusBadRequest, CredError(body, TRUE))
         ELSE [q EXCEPT !.pc = "repo", !.body = body,
                        !.calls = <<"CheckUserExistsByUsername", "CreateUser">>]]
  /\ UNCHANGED <<Fixed, now, quota, Database>>

\* Service.Register: the existence check
CheckUserExistsByUsername(r) ==
  /\ InRepo(r, "CheckUserExistsByUsername")
  /\ LET q == req[r]
         f == RegisterFailure(ErrUserAlreadyExists)
     IN req' = [req EXCEPT ![r] =
          IF UsernameTaken(users, q.body.username)
            THEN Respond(q, f.status, f.msg)
            ELSE [q EXCEPT !.calls = Tail(@)]]
  /\ UNCHANGED <<Fixed, now, quota, Database>>

\* Service.Register: hashPassword, then INSERT INTO users ... RETURNING id under
\* the UNIQUE constraint on username and the CHECK on role
CreateUser(r) ==
  /\ InRepo(r, "CreateUser")
  /\ \E salt \in Salts :
       LET q == req[r]
           row == [id |-> NewUserId, username |-> q.body.username,
                   role |-> q.body.role,
                   password_hash |-> hashPassword(q.body.password, salt)]
           f == RegisterFailure("create user: failed to create user")
       IN IF (\E u \in users : u.username = row.username) \/ row.role \notin RoleSet
            THEN /\ users' = users
                 /\ req' = [req EXCEPT ![r] = Respond(q, f.status, f.msg)]
            ELSE /\ users' = users \cup {row}
                 /\ req' = [req EXCEPT ![r] = Reply(q, StatusCreated, IdResult(row.id))]
  /\ UNCHANGED <<Fixed, now, quota, items, item_history, nextItemId, conn>>

\* Service.Login's error for a lookup and a password comparison
LoginError_RevealsMissing(found, matches) ==
  IF ~found THEN ErrUserNotFound
  ELSE IF ~matches THEN ErrInvalidCredentials
  ELSE NilErr

LoginError(found, matches) ==
  IF ~found THEN ErrInvalidCredentials
  ELSE IF ~matches THEN ErrInvalidCredentials
  ELSE NilErr

\* Handler.Login's answer to an error of Service.Login
LoginFailure(err) ==
  IF err = ErrInvalidCredentials THEN Response(StatusUnauthorized, ErrInvalidCredentials)
  ELSE IF err = ErrUserNotFound THEN Response(StatusNotFound, ErrUserNotFound)
  ELSE Response(StatusInternalServerError, ErrInternal)

\* jwt.NewWithClaims(HS256, claims) signed with the secret; expTime and iat are
\* the two readings of the clock
generateToken_OtherKey(user, secret, expTime, iat) ==
  [form |-> "jwt", alg |-> "HS256", key |-> OtherSecret, exp |-> expTime,
   user_id |-> user.id, role |-> user.role, username |-> user.username,
   iat |-> iat]

generateToken(user, secret, expTime, iat) ==
  [form |-> "jwt", alg |-> "HS256", key |-> secret, exp |-> expTime,
   user_id |-> user.id, role |-> user.role, username |-> user.username,
   iat |-> iat]

\* Handler.Login up to the call of the service
HandlerLogin(r) ==
  /\ At(r, "auth.Login")
  /\ \E body \in LoginBodies :
       LET q == Entered(req[r]) IN
       req' = [req EXCEPT ![r] =
         IF CredError(body, FALSE) # NilErr
           THEN Respond(q, StatusBadRequest, CredError(body, FALSE))
         ELSE [q EXCEPT !.pc = "repo", !.body = body,
                        !.calls = <<"Login", "generateToken">>]]
  /\ UNCHANGED <<Fixed, now, quota, Database>>

\* Service.Login: GetUserByUsername, verifyPassword, and generateToken's first
\* line, expTime := time.Now().Add(ttl)
ServiceLogin(r) ==
  /\ InRepo(r, "Login")
  /\ LET q == req[r]
         found == \E u \in users : u.username = q.body.username
         row == IF found THEN CHOOSE u \in users : u.username = q.body.username
                         ELSE NoUser
         matches == found /\ verifyPassword(q.body.password, row.password_hash)
         err == LoginError(found, matches)
         f == LoginFailure(err)
     IN req' = [req EXCEPT ![r] =
          IF err # NilErr
            THEN [Respond(q, f.status, f.msg) EXCEPT !.found = found]
            ELSE [q EXCEPT !.found = found, !.user = row, !.expTime = now + ttl,
                           !.calls = Tail(@)]]
  /\ UNCHANGED <<Fixed, now, quota, Database>>

\* generateToken from the claims on ("iat": time.Now().Unix()) to the signed
\* string, then Handler.Login's answer
SignToken(r) ==
  /\ InRepo(r, "generateToken")
  /\ LET q == req[r] IN
     req' = [req EXCEPT ![r] =
               Reply(q, StatusOK,
                     TokenResult(generateToken(q.user, ServerSecret, q.expTime, now)))]
  /\ UNCHANGED <<Fixed, now, quota, Database>>

-----------------------------------------------------------------------------
(* Item repository: each call is one statement on a connection of the pool *)

\* SELECT set_config('app.current_user_id', $1, false) on a pooled connection
SetCurrentUser(r, c) ==
  /\ InRepo(r, "SetCurrentUser")
  /\ conn' = [conn EXCEPT ![c] = req[r].ctx.userID]
  /\ req' = [req EXCEPT ![r].calls = Tail(@)]
  /\ UNCHANGED <<Fixed, now, quota, users, items, item_history, nextItemId>>

\* INSERT INTO items ... RETURNING id, with trg_item_insert, then Handler.Create's
\* answer
CreateItem(r, c) ==
  /\ InRepo(r, "CreateItem")
  /\ LET q == req[r]
         newRow == [id |-> nextItemId, name |-> q.body.name,
                    quantity |-> q.body.quantity]
     IN IF TriggerOK(conn[c])
          THEN /\ items' = items \cup {newRow}
               /\ item_history' =
                    Append(item_history, log_item_insert(newRow, conn[c], q.ctx.userID))
               /\ nextItemId' = nextItemId + 1
               /\ req' = [req EXCEPT ![r] = Respond(q, StatusCreated, NilErr)]
          ELSE /\ UNCHANGED <<items, item_history, nextItemId>>
               /\ req' = [req EXCEPT ![r] =
                            Respond(q, StatusInternalServerError, "failed to create item")]
  /\ UNCHANGED <<Fixed, now, quota, users, conn>>

ErrItemNotFound == "item not found"

\* Handler.Update's and Handler.Delete's answer to an error of the service:
\* errors.Is(err, repoitem.ErrItemNotFound) finds the repository's error under
\* the service's "%w" wrapping
ItemFailure_NoUnwrap(err, wrapped, generic) ==
  Response(StatusInternalServerError, generic)

ItemFailure(err, wrapped, generic) ==
  IF err = ErrItemNotFound THEN Response(StatusNotFound, wrapped)
  ELSE Response(StatusInternalServerError, generic)

\* UPDATE items SET ... WHERE id = $5, with trg_item_update, then Handler.Update's
\* answer
UpdateItem(r, c) ==
  /\ InRepo(r, "UpdateItem")
  /\ LET q == req[r] IN
     IF ~ItemExists(q.id)
       THEN /\ UNCHANGED <<items, item_history>>
            /\ LET f == ItemFailure(ErrItemNotFound, "update item: item not found",
                                     "failed to update item")
               IN req' = [req EXCEPT ![r] = Respond(q, f.status, f.msg)]
     ELSE IF ~TriggerOK(conn[c])
       THEN /\ UNCHANGED <<items, item_history>>
            /\ LET f == ItemFailure("failed to update item: trigger", "",
                                     "failed to update item")
               IN req' = [req EXCEPT ![r] = Respond(q, f.status, f.msg)]
     ELSE LET oldRow == ItemRow(q.id)
              newRow == [oldRow EXCEPT !.name = q.body.name,
                                       !.quantity = q.body.quantity]
          IN /\ items' = (items \ {oldRow}) \cup {newRow}
             /\ item_history' =
                  Append(item_history,
                         log_item_update(oldRow, newRow, conn[c], q.ctx.userID))
             /\ req' = [req EXCEPT ![r] = Respond(q, StatusOK, NilErr)]
  /\ UNCHANGED <<Fixed, now, quota, users, nextItemId, conn>>

\* DELETE FROM items WHERE id = $1, with trg_item_delete (BEFORE DELETE) and the
\* cascade of item_history.item_id, then Handler.Delete's answer
DeleteItem(r, c) ==
  /\ InRepo(r, "DeleteItem")
  /\ LET q == req[r] IN
     IF ~ItemExists(q.id)
       THEN /\ UNCHANGED <<items, item_history>>
            /\ LET f == ItemFailure(ErrItemNotFound, "delete item: item not found",
                                     "failed to delete item")
               IN req' = [req EXCEPT ![r] = Respond(q, f.status, f.msg)]
     ELSE IF ~TriggerOK(conn[c])
       THEN /\ UNCHANGED <<items, item_history>>
            /\ LET f == ItemFailure("failed to delete item: trigger", "",
                                     "failed to delete item")
               IN req' = [req EXCEPT ![r] = Respond(q, f.status, f.msg)]
     ELSE LET oldRow == ItemRow(q.id)
              logged == Append(item_history,
                               log_item_delete(oldRow, conn[c], q.ctx.userID))
          IN /\ items' = items \ {oldRow}
             /\ item_history' = OnDeleteCascade(logged, oldRow.id)
             /\ req' = [req EXCEPT ![r] = Respond(q, StatusOK, NilErr)]
  /\ UNCHANGED <<Fixed, now, quota, users, nextItemId, conn>>

-----------------------------------------------------------------------------
(* main: the server goroutine, the shutdown signal, the databases *)

\* the process once main has started the goroutine of ListenAndServe and waits
\* on ctx.Done(), with the master and n slaves connected
Running(n) ==
  [main |-> "wait", srv |-> "serving", listening |-> TRUE, drained |-> FALSE,
   master |-> "open", slaves |-> [i \in 1..n |-> "open"], next |-> 1,
   exited |-> FALSE, code |-> 0]

\* SIGINT or SIGTERM: ctx.Done() is closed and main goes on
Signal ==
  /\ ~proc.exited
  /\ proc.main = "wait"
  /\ proc' = [proc EXCEPT !.main = "shutdown"]
  /\ UNCHANGED <<routerBuild, serviceBuild, routes, engineUp, ttl, traffic, now, quota,
                 req, Database>>

\* s.Shutdown(shutdownCtx) closes the listeners and starts to wait for the
\* requests in flight
Shutdown ==
  /\ ~proc.exited
  /\ proc.main = "shutdown"
  /\ proc' = [proc EXCEPT !.main = "draining", !.listening = FALSE]
  /\ UNCHANGED <<routerBuild, serviceBuild, routes, engineUp, ttl, traffic, now, quota,
                 req, Database>>

\* s.Shutdown returns: nil once no request is in flight, the context's error
\* when the five seconds of shutdownCtx have passed
ShutdownReturns ==
  /\ ~proc.exited
  /\ proc.main = "draining"
  /\ \E timeout \in BOOLEAN :
       /\ timeout \/ \A r \in Req : req[r].pc = "idle"
       /\ proc' = [proc EXCEPT !.main = "closeMaster", !.drained = ~timeout]
  /\ UNCHANGED <<routerBuild, serviceBuild, routes, engineUp, ttl, traffic, now, quota,
                 req, Database>>

\* db.Master.Close()
CloseMaster ==
  /\ ~proc.exited
  /\ proc.main = "closeMaster"
  /\ proc' = [proc EXCEPT !.main = "closeSlaves", !.master = "closed"]
  /\ UNCHANGED <<routerBuild, serviceBuild, routes, engineUp, ttl, traffic, now, quota,
                 req, Database>>

\* one turn of the loop over db.Slaves: s.Close()
CloseSlave ==
  /\ ~proc.exited
  /\ proc.main = "closeSlaves"
  /\ proc.next \in DOMAIN proc.slaves
  /\ proc' = [proc EXCEPT !.slaves[proc.next] = "closed", !.next = @ + 1]
  /\ UNCHANGED <<routerBuild, serviceBuild, routes, engineUp, ttl, traffic, now, quota,
                 req, Database>>

\* main returns: the process exits with status 0
MainReturns ==
  /\ ~proc.exited
  /\ proc.main = "closeSlaves"
  /\ proc.next \notin DOMAIN proc.slaves
  /\ proc' = [proc EXCEPT !.main = "returned", !.exited = TRUE, !.code = 0]
  /\ UNCHANGED <<routerBuild, serviceBuild, routes, engineUp, ttl, traffic, now, quota,
                 req, Database>>

\* in the goroutine, s.ListenAndServe() returns http.ErrServerClosed as soon as
\* Shutdown has closed the listeners
ListenAndServeReturns ==
  /\ ~proc.exited
  /\ proc.srv = "serving"
  /\ ~proc.listening
  /\ proc' = [proc EXCEPT !.srv = "returned"]
  /\ UNCHANGED <<routerBuild, serviceBuild, routes, engineUp, ttl, traffic, now, quota,
                 req, Database>>

\* in the goroutine, err != nil: zlog.Logger.Fatal()...Msg() logs and calls
\* os.Exit(1)
Fatal ==
  /\ ~proc.exited
  /\ proc.srv = "returned"
  /\ proc' = [proc EXCEPT !.srv = "fatal", !.exited = TRUE, !.code = 1]
  /\ UNCHANGED <<routerBuild, serviceBuild, routes, engineUp, ttl, traffic, now, quota,
                 req, Database>>

-----------------------------------------------------------------------------
(* Specifications *)

\* one request: every step a handler chain, the service or the repository takes
Serve(r) ==
  \/ Auth(r)
  \/ RequireRole(r)
  \/ HandlerCreate(r)
  \/ HandlerUpdate(r)
  \/ HandlerDelete(r)
  \/ HandlerGetAll(r)
  \/ HandlerGetByID(r)
  \/ UserGetByID(r)
  \/ GetHistory(r)
  \/ CompareVersions(r)
  \/ \E c \in Conns : SetCurrentUser(r, c)
  \/ \E c \in Conns : CreateItem(r, c)
  \/ \E c \in Conns : UpdateItem(r, c)
  \/ \E c \in Conns : DeleteItem(r, c)
  \/ Complete(r)

\* the database after the migrations and three registrations, with a pool whose
\* sessions have set nothing
Migrated ==
  /\ users = SeedUsers
  /\ items = {}
  /\ item_history = <<>>
  /\ nextItemId = 1
  /\ conn = [c \in Conns |-> Unset]

\* cfg.JWT.TTL of the process that issued IssuedTokens at time 0
ConfiguredTTL == MaxTime + 1

\* the process after main built it, before any request
Started(build, service, sent, n) ==
  /\ routerBuild = build
  /\ serviceBuild = service
  /\ routes = New(build).routes
  /\ engineUp = ~New(build).panicked
  /\ ttl = ConfiguredTTL
  /\ proc = Running(0)
  /\ traffic = sent
  /\ quota = n
  /\ req = [r \in Req |-> IdleRequest]
  /\ Migrated

\* Spec: requests of every kind, served one at a time, while the clock runs
Serial == {1}

Init ==
  /\ \E build \in Routers, service \in Services :
       Started(build, service, ResourceKeys \X ClientHeaders, MaxRequests)
  /\ now = 0

Next ==
  \/ Tick
  \/ \E r \in Serial : Arrive(r)
  \/ \E r \in Serial : Refused(r)
  \/ \E r \in Serial : Serve(r)

Spec == Init /\ [][Next]_vars

\* SpecAudit: concurrent item mutations by the registered users
MutatingRoutes == {KeyCreate, KeyUpdate, KeyDelete}

InitAudit ==
  /\ \E service \in Services :
       Started("router-per-route", service,
               MutatingRoutes \X { Bearer(t) : t \in IssuedTokens },
               MaxAuditRequests)
  /\ now = 0

AuditStep(r) ==
  \/ Auth(r)
  \/ RequireRole(r)
  \/ HandlerCreate(r)
  \/ HandlerUpdate(r)
  \/ HandlerDelete(r)
  \/ \E c \in Conns : SetCurrentUser(r, c)
  \/ \E c \in Conns : CreateItem(r, c)
  \/ \E c \in Conns : UpdateItem(r, c)
  \/ \E c \in Conns : DeleteItem(r, c)
  \/ Complete(r)

NextAudit ==
  \/ \E r \in Req : Arrive(r)
  \/ \E r \in Req : AuditStep(r)

SpecAudit == InitAudit /\ [][NextAudit]_vars

\* SpecToken: Auth applied to every Authorization header at every instant, on
\* the route whose chain is Auth followed by user.GetByID
InitToken ==
  /\ routerBuild = "router-per-route"
  /\ serviceBuild \in Services
  /\ routes = New(routerBuild).routes
  /\ engineUp = TRUE
  /\ ttl = ConfiguredTTL
  /\ proc = Running(0)
  /\ traffic = {}
  /\ quota = 0
  /\ \E hdr \in AllHeaders :
       req = [r \in Req |->
                IF r = 1
                  THEN [IdleRequest EXCEPT !.pc = "chain", !.route = KeyUser,
                                           !.hdr = hdr, !.idx = 1]
                  ELSE IdleRequest]
  /\ now \in 0..MaxTime
  /\ Migrated

NextToken ==
  \/ Auth(1)
  \/ UserGetByID(1)
  \/ Complete(1)

SpecToken == InitToken /\ [][NextToken]_vars

\* SpecGate: RequireRole applied with every permitted-role set to every value
\* the role key of a context can hold
GateRoles == {"admin", "manager", "viewer", "root"}

InitGate ==
  /\ routerBuild = "router-per-route"
  /\ serviceBuild = "service.go"
  /\ engineUp = TRUE
  /\ ttl = ConfiguredTTL
  /\ proc = Running(0)
  /\ traffic = {}
  /\ quota = 0
  /\ \E allowed \in SUBSET GateRoles :
       routes = [k \in RouteKeys |->
                   IF k = KeyGetAll
                     THEN <<RequireRoleMW(allowed), H("item.GetAll")>>
                     ELSE <<>>]
  /\ \E role \in GateRoles \cup {Unset, NonString} :
       req = [r \in Req |->
                IF r = 1
                  THEN [IdleRequest EXCEPT
                          !.pc = "chain", !.route = KeyGetAll, !.idx = 1,
                          !.ctx = [userID |-> IF role = Unset THEN Unset ELSE "u1",
                                   role |-> role]]
                  ELSE IdleRequest]
  /\ now = 0
  /\ Migrated

NextGate ==
  \/ RequireRole(1)
  \/ HandlerGetAll(1)
  \/ Complete(1)

SpecGate == InitGate /\ [][NextGate]_vars

\* SpecCred: concurrent registrations and logins on an empty users table, for
\* every configured TTL, while the clock runs
TTLs == 1..MaxTTL

InitCred ==
  /\ routerBuild = "router-per-route"
  /\ serviceBuild = "service.go"
  /\ routes = New(routerBuild).routes
  /\ engineUp = ~New(routerBuild).panicked
  /\ ttl \in TTLs
  /\ proc = Running(0)
  /\ traffic = {KeyRegister, KeyLogin} \X {NoHeader}
  /\ quota = MaxCredRequests
  /\ req = [r \in Req |-> IdleRequest]
  /\ now = 0
  /\ users = {}
  /\ items = {}
  /\ item_history = <<>>
  /\ nextItemId = 1
  /\ conn = [c \in Conns |-> Unset]

CredStep(r) ==
  \/ Arrive(r)
  \/ HandlerRegister(r)
  \/ CheckUserExistsByUsername(r)
  \/ CreateUser(r)
  \/ HandlerLogin(r)
  \/ ServiceLogin(r)
  \/ SignToken(r)
  \/ Complete(r)

NextCred ==
  \/ Tick
  \/ \E r \in Req : CredStep(r)

SpecCred == InitCred /\ [][NextCred]_vars

\* SpecHandler: the mutating item handlers called on a context without a bound
\* actor, with the actor of a stored user, or with the actor of a valid token
\* whose user_id names no stored user, against a database that holds one item
StockedItem == [id |-> 1, name |-> "bolt", quantity |-> 1]

Stocked ==
  /\ users = SeedUsers
  /\ items = {StockedItem}
  /\ item_history = <<log_item_insert(StockedItem, "u1", "u1")>>
  /\ nextItemId = 2
  /\ conn \in {[c \in Conns |-> Unset],
               [c \in Conns |-> IF c = 1 THEN "u1" ELSE Unset]}

HandlerContexts ==
  {EmptyContext, AuthBind(EmptyContext, "u1", "admin"),
   AuthBind(EmptyContext, "u0", "admin")}

InitHandler ==
  /\ routerBuild = "router-per-route"
  /\ serviceBuild \in Services
  /\ routes = [k \in RouteKeys |->
                 IF k \in MutatingRoutes
                   THEN <<New(routerBuild).routes[k][Len(New(routerBuild).routes[k])]>>
                   ELSE <<>>]
  /\ engineUp = TRUE
  /\ ttl = ConfiguredTTL
  /\ proc = Running(0)
  /\ traffic = {}
  /\ quota = 0
  /\ \E k \in MutatingRoutes, ctx \in HandlerContexts :
       req = [r \in Req |->
                IF r = 1
                  THEN [IdleRequest EXCEPT !.pc = "chain", !.route = k, !.idx = 1,
                                           !.ctx = ctx]
                  ELSE IdleRequest]
  /\ now = 0
  /\ Stocked

NextHandler ==
  \/ HandlerCreate(1)
  \/ HandlerUpdate(1)
  \/ HandlerDelete(1)
  \/ \E c \in Conns : SetCurrentUser(1, c)
  \/ \E c \in Conns : CreateItem(1, c)
  \/ \E c \in Conns : UpdateItem(1, c)
  \/ \E c \in Conns : DeleteItem(1, c)
  \/ Complete(1)

SpecHandler == InitHandler /\ [][NextHandler]_vars

\* SpecVerify: concurrent requests that present tokens to Auth, the same token
\* more than once, while the clock runs: a token signed with the server's
\* secret for a user_id the users table does not hold, an issued token that
\* expires at time 1, a token signed with another secret, and a damaged one
InitVerify ==
  /\ Started("router-per-route", "service.go",
             {KeyUser} \X { Bearer(Jwt("u0", "viewer", MaxTime + 1)),
                            Bearer(Jwt("u1", "admin", 1)),
                            Bearer([Jwt("u2", "manager", MaxTime + 1)
                                      EXCEPT !.key = OtherSecret]),
                            Bearer(GarbageToken) },
             MaxRequests)
  /\ now = 0

NextVerify ==
  \/ Tick
  \/ \E r \in Req : Arrive(r)
  \/ \E r \in Req : Auth(r)
  \/ \E r \in Req : UserGetByID(r)
  \/ \E r \in Req : Complete(r)

SpecVerify == InitVerify /\ [][NextVerify]_vars

\* SpecShutdown: the process with requests to the public list route in flight
\* receives the shutdown signal; main and the goroutine of ListenAndServe run
\* in every order
InitShutdown ==
  /\ routerBuild = "router-per-route"
  /\ serviceBuild = "service.go"
  /\ routes = New(routerBuild).routes
  /\ engineUp = ~New(routerBuild).panicked
  /\ ttl = ConfiguredTTL
  /\ \E n \in 0..MaxSlaves : proc = Running(n)
  /\ traffic = {}
  /\ quota = 0
  /\ req \in [Req -> {IdleRequest,
                      [IdleRequest EXCEPT !.pc = "chain", !.route = KeyGetAll, !.idx = 1]}]
  /\ now = 0
  /\ Migrated

NextShutdown ==
  \/ Signal
  \/ Shutdown
  \/ ShutdownReturns
  \/ CloseMaster
  \/ CloseSlave
  \/ MainReturns
  \/ ListenAndServeReturns
  \/ Fatal
  \/ \E r \in Req : ~proc.exited /\ HandlerGetAll(r)
  \/ \E r \in Req : ~proc.exited /\ Complete(r)

SpecShutdown == InitShutdown /\ [][NextShutdown]_vars

-----------------------------------------------------------------------------
(* Vocabulary of the properties *)

Ran(q, name) == \E i \in DOMAIN q.ran : q.ran[i] = name

\* the handler function a route ends in, per the API's endpoint list
EndpointHandler(k) ==
  CASE k = KeyGetAll -> "item.GetAll"
    [] k = KeyGetByID -> "item.GetByID"
    [] k = KeyCreate -> "item.Create"
    [] k = KeyUpdate -> "item.Update"
    [] k = KeyDelete -> "item.Delete"
    [] k = KeyUser -> "user.GetByID"
    [] k = KeyHistory -> "audit.GetHistory"
    [] k = KeyCompare -> "audit.CompareVersions"

ProtectedKeys == {KeyCreate, KeyUpdate, KeyDelete, KeyUser, KeyHistory, KeyCompare}

\* "Bearer <token>" with an HMAC-signed token of the server's secret whose
\* user_id is a UUID and whose role is a string
WellSigned(h) ==
  /\ h.n = 2
  /\ h.scheme = "Bearer"
  /\ h.tok.form = "jwt"
  /\ h.tok.alg \in HMACFamily
  /\ h.tok.key = ServerSecret

WellClaimed(h) ==
  /\ uuidParse(h.tok.user_id)
  /\ h.tok.role # ClaimAbsent

LiveAt(h, t) == h.tok.exp = NoExp \/ t < h.tok.exp

\* the token is valid at instant t
ValidAt(h, t) == WellSigned(h) /\ WellClaimed(h) /\ LiveAt(h, t)

Denied(q, msg) == q.resps = <<Response(StatusForbidden, msg)>>
Unauthorized(q) == Len(q.resps) = 1 /\ q.resps[1].status = StatusUnauthorized

-----------------------------------------------------------------------------
(* C1 *)

C1_GateStep(r) ==
  LET q == req[r]
      p == req'[r]
      allowed == Current(r).roles
  IN IF q.ctx.role \in allowed
       THEN /\ p.pc = "chain"
            /\ p.idx = q.idx + 1
            /\ p.ctx = q.ctx
            /\ p.resps = q.resps
       ELSE /\ p.pc = "done"
            /\ p.ctx = q.ctx
            /\ p.resps = Append(q.resps, Response(StatusForbidden, ErrAccessDenied))

C1_DeniedNeverHandled ==
  \A r \in Req :
    (\E i \in DOMAIN req[r].resps : req[r].resps[i].status = StatusForbidden)
      => ~Ran(req[r], "item.GetAll")

\* C1: for every permitted-role set S and every role bound in the context, the
\* step RequireRole(S) takes passes the request on, context and response
\* untouched, exactly when the role is in S; otherwise it answers 403 "access
\* denied", and a request answered 403 never has its handler run.  admin is
\* treated like any other role.
C1_RequireRoleIffPermitted ==
  /\ []C1_DeniedNeverHandled
  /\ [][\A r \in Req :
          (At(r, "RequireRole") /\ req[r].ctx.role \in GateRoles /\ req'[r] # req[r])
            => C1_GateStep(r)]_vars

C1_Witness ==
  \E r \in Req :
    /\ req[r].pc = "done"
    /\ req[r].ran = <<"RequireRole">>
    /\ req[r].ctx.role = "admin"
    /\ "admin" \notin routes[req[r].route][1].roles
    /\ "manager" \in routes[req[r].route][1].roles
    /\ Denied(req[r], ErrAccessDenied)

-----------------------------------------------------------------------------
(* C2 *)

\* C2: a finished request to POST /api/items or PUT /api/items/:id that carried
\* a valid token reached the handler when the token's role is admin or manager,
\* and was answered 403 "access denied" without the handler when it is viewer.
C2_CreateUpdateRoles ==
  \A r \in Req :
    LET q == req[r] IN
    (q.pc = "done" /\ q.route \in {KeyCreate, KeyUpdate} /\ ValidAt(q.hdr, now))
      => /\ q.hdr.tok.role \in {"admin", "manager"} => Ran(q, EndpointHandler(q.route))
         /\ q.hdr.tok.role = "viewer"
              => Denied(q, ErrAccessDenied) /\ ~Ran(q, EndpointHandler(q.route))

-----------------------------------------------------------------------------
(* C3 *)

AdminOnlyKeys == {KeyDelete, KeyHistory, KeyCompare}

\* C3: on DELETE /api/items/:id and on both audit routes the handler has run
\* only for a request whose token was valid when verified and bound to role
\* admin; a finished request with a valid manager or viewer token was answered
\* 403 and its handler never ran.
C3_AdminOnlyRoutes ==
  \A r \in Req :
    LET q == req[r] IN
    q.route \in AdminOnlyKeys
      => /\ Ran(q, EndpointHandler(q.route))
              => /\ ValidAt(q.hdr, q.authAt)
                 /\ q.hdr.tok.role = "admin"
                 /\ q.ctx.role = "admin"
         /\ (q.pc = "done" /\ ~q.refused /\ ValidAt(q.hdr, q.authAt)
               /\ q.hdr.tok.role \in {"manager", "viewer"})
              => /\ Len(q.resps) = 1
                 /\ q.resps[1].status = StatusForbidden
                 /\ ~Ran(q, EndpointHandler(q.route))

C3_Witness ==
  \E r \in Req :
    /\ req[r].pc = "done"
    /\ req[r].route = KeyDelete
    /\ ValidAt(req[r].hdr, req[r].authAt)
    /\ req[r].hdr.tok.role = "manager"
    /\ Denied(req[r], ErrAccessDenied)
    /\ req[r].ran = <<"Auth", "RequireRole">>

-----------------------------------------------------------------------------
(* C4 *)

\* the signature verifies under the server's secret and exp lies at or before t
ExpiredAt(h, t) == WellSigned(h) /\ h.tok.exp # NoExp /\ h.tok.exp <= t

\* C4: a request whose token verifies under the server's secret but whose expiry
\* is not after the instant of verification is answered 401 with the message
\* "token had expired", nothing bound and nothing further run; every other
\* rejection by Auth carries a different message.
C4_ExpiredTokenRejected ==
  \A r \in Req :
    LET q == req[r] IN
    Ran(q, "Auth")
      => /\ ExpiredAt(q.hdr, q.authAt)
              => /\ q.pc = "done"
                 /\ q.resps = <<Response(StatusUnauthorized, ErrExpiredToken)>>
                 /\ q.ctx = EmptyContext
                 /\ q.ran = <<"Auth">>
         /\ (~ExpiredAt(q.hdr, q.authAt) /\ Len(q.resps) > 0
               /\ q.resps[1].status = StatusUnauthorized)
              => q.resps[1].msg # ErrExpiredToken

C4_Witness ==
  \E r \in Req :
    /\ req[r].pc = "done"
    /\ req[r].ran = <<"Auth">>
    /\ ExpiredAt(req[r].hdr, req[r].authAt)
    /\ WellClaimed(req[r].hdr)
    /\ req[r].hdr.tok.exp = req[r].authAt
    /\ req[r].resps = <<Response(StatusUnauthorized, ErrExpiredToken)>>

-----------------------------------------------------------------------------
(* C5 *)

\* C5: a bearer token signed with a secret other than the server's is always
\* rejected, whatever its algorithm, claims and expiry: one 401, nothing bound,
\* nothing run after Auth.
C5_ForeignSecretRejected ==
  \A r \in Req :
    LET q == req[r] IN
    (Ran(q, "Auth") /\ q.hdr.n = 2 /\ q.hdr.scheme = "Bearer"
       /\ q.hdr.tok.key # ServerSecret)
      => /\ q.pc = "done"
         /\ Unauthorized(q)
         /\ q.ctx = EmptyContext
         /\ q.ran = <<"Auth">>

C5_Witness ==
  \E r \in Req :
    LET h == req[r].hdr IN
    /\ req[r].pc = "done"
    /\ req[r].ran = <<"Auth">>
    /\ h.n = 2 /\ h.scheme = "Bearer" /\ h.tok.form = "jwt"
    /\ h.tok.alg = "HS256"
    /\ h.tok.key = OtherSecret
    /\ WellClaimed(h)
    /\ h.tok.role = "admin"
    /\ LiveAt(h, req[r].authAt)
    /\ Unauthorized(req[r])

-----------------------------------------------------------------------------
(* C6 *)

IsPrefix(s, t) == Len(s) <= Len(t) /\ \A i \in DOMAIN s : s[i] = t[i]

ChainNames(k) == [i \in DOMAIN routes[k] |-> routes[k][i].name]

\* C6: on every protected route Auth is the first function of the chain and the
\* functions run in chain order, so no role gate or handler runs before Auth;
\* when Auth rejects, nothing after it runs and the response is exactly the one
\* 401 Auth wrote.
C6_AuthFirstAndAborts ==
  /\ engineUp => \A k \in ProtectedKeys : routes[k][1].kind = "Auth"
  /\ \A r \in Req :
       LET q == req[r] IN
       (q.route \in ProtectedKeys /\ ~q.refused /\ q.pc # "idle")
         => /\ IsPrefix(q.ran, ChainNames(q.route))
            /\ (Ran(q, "Auth") /\ ~ValidAt(q.hdr, q.authAt))
                 => /\ q.ran = <<"Auth">>
                    /\ q.pc = "done"
                    /\ Unauthorized(q)
                    /\ q.resps =
                         AuthEffect(EmptyContext, q.hdr, ServerSecret, q.authAt).resps

C6_Witness ==
  \E r \in Req :
    /\ req[r].pc = "done"
    /\ req[r].route = KeyDelete
    /\ req[r].hdr = NoHeader
    /\ req[r].ran = <<"Auth">>
    /\ req[r].resps = <<Response(StatusUnauthorized, ErrNoToken)>>

-----------------------------------------------------------------------------
(* C7 *)

PassedAuth(q) == Ran(q, "Auth") /\ (q.pc \in {"chain", "repo"} \/ Len(q.ran) >= 2)

\* C7: userID and role are bound together or not at all: at every instant
\* either both are unset, or both are bound to the claims of the one token the
\* request presented; past Auth both are bound, after a rejection neither is.
C7_IdentityBoundTogether ==
  \A r \in Req :
    LET q == req[r] IN
    /\ q.ctx.userID = Unset <=> q.ctx.role = Unset
    /\ PassedAuth(q)
         => /\ q.ctx.userID # Unset
            /\ q.ctx.userID = q.hdr.tok.user_id
            /\ q.ctx.role = q.hdr.tok.role
    /\ (Ran(q, "Auth") /\ ~PassedAuth(q)) => q.ctx = EmptyContext

C7_Witness ==
  \E r \in Req :
    /\ req[r].pc = "repo"
    /\ Ran(req[r], "Auth")
    /\ req[r].hdr.tok.user_id = "u2"
    /\ req[r].hdr.tok.role = "manager"
    /\ req[r].ctx = [userID |-> "u2", role |-> "manager"]

-----------------------------------------------------------------------------
(* C8 *)

\* C8: under every interleaving of concurrent mutating requests over the
\* connection pool, the changed_by of every history record is the actor of the
\* request whose statement produced the record.
C8_ChangedByIsProducer ==
  \A k \in DOMAIN item_history :
    item_history[k].changed_by = item_history[k].producer

-----------------------------------------------------------------------------
(* C9 *)

Statement(r, c) == CreateItem(r, c) \/ UpdateItem(r, c) \/ DeleteItem(r, c)

\* C9: whenever the INSERT, UPDATE or DELETE of a request is executed on a
\* session of the pool, that session already holds the request's userID as
\* app.current_user_id.
C9_ActorAttachedBeforeStatement ==
  [][\A r \in Req, c \in Conns :
       Statement(r, c) => conn[c] = req[r].ctx.userID]_vars

-----------------------------------------------------------------------------
(* C10 *)

Succeeded(r) ==
  /\ req[r].pc = "repo"
  /\ req'[r].pc = "done"
  /\ req'[r].resps[Len(req'[r].resps)].status \in {StatusOK, StatusCreated}

ActionOf(call) ==
  CASE call = "CreateItem" -> "INSERT"
    [] call = "UpdateItem" -> "UPDATE"
    [] call = "DeleteItem" -> "DELETE"

\* C10: the history only grows: every step keeps every record it found, and
\* a successful create, update or delete adds exactly one record, of its
\* action, as the last one.
C10_HistoryKeepsEveryMutation ==
  [][/\ IsPrefix(item_history, item_history')
     /\ \A r \in Req :
          Succeeded(r)
            => /\ Len(item_history') = Len(item_history) + 1
               /\ item_history'[Len(item_history')].action
                    = ActionOf(Head(req[r].calls))]_vars

-----------------------------------------------------------------------------
(* C11 *)

LastStatus(q) == q.resps[Len(q.resps)].status

\* a mutating handler takes its step on a context without userID
UnboundHandlerStep(r) ==
  /\ req[r].pc = "chain"
  /\ req[r].route \in MutatingRoutes
  /\ Current(r).kind = "Handler"
  /\ req[r].ctx.userID = Unset
  /\ req'[r] # req[r]

\* the statement of a mutation that has a row to act on runs on a session
\* that holds no app.current_user_id
UnboundStatement(r, c) ==
  /\ Statement(r, c)
  /\ conn[c] = Unset
  /\ Head(req[r].calls) = "CreateItem" \/ ItemExists(req[r].id)

\* C11: a mutation attempted without a bound actor changes no item row, writes
\* no history record and is answered 500 (a request whose body or id is
\* rejected first is answered 400): both for a handler that finds no userID in
\* the context and for a statement on a session with no actor id.
C11_UnboundActorAborts ==
  [][\A r \in Req :
       /\ UnboundHandlerStep(r)
            => /\ req'[r].pc = "done"
               /\ LastStatus(req'[r]) \in {StatusBadRequest, StatusInternalServerError}
               /\ UNCHANGED <<items, item_history>>
       /\ \A c \in Conns :
            UnboundStatement(r, c)
              => /\ req'[r].pc = "done"
                 /\ LastStatus(req'[r]) = StatusInternalServerError
                 /\ UNCHANGED <<items, item_history>>]_vars

-----------------------------------------------------------------------------
(* C12 *)

\* a finished request on the route whose body passed binding and validation
Finished(q, k) == q.pc = "done" /\ q.route = k /\ q.body.form = "json"

Registered(name) == \E u \in users : u.username = name
RowOf(name) == CHOOSE u \in users : u.username = name

\* C12: under every interleaving of register calls, no two credentials share a
\* username, every finished registration (with a role the table admits) either
\* returned the id of the credential stored for its username (201) or was
\* answered 409 "user already exists", and no two calls with the same username
\* both returned an id.
C12_OneRegistrationWins ==
  /\ \A u, v \in users : u.username = v.username => u = v
  /\ \A r \in Req :
       LET q == req[r] IN
       (Finished(q, KeyRegister) /\ q.body.role \in RoleSet)
         => \/ /\ q.resps = <<Response(StatusCreated, NilErr)>>
               /\ Registered(q.body.username)
               /\ q.result = IdResult(RowOf(q.body.username).id)
            \/ /\ q.resps = <<Response(StatusConflict, ErrUserAlreadyExists)>>
               /\ q.result.kind = "none"
  /\ \A r1, r2 \in Req :
       (r1 # r2 /\ Finished(req[r1], KeyRegister) /\ Finished(req[r2], KeyRegister)
          /\ req[r1].body.username = req[r2].body.username)
         => ~(req[r1].result.kind = "id" /\ req[r2].result.kind = "id")

-----------------------------------------------------------------------------
(* C13 *)

\* the credential the call of request r stores: a new id, the username and role
\* of the request, and a hash that is the password's digest under its salt
NewCredential(r, row) ==
  /\ row \notin users
  /\ \A u \in users : u.id # row.id
  /\ row.username = req[r].body.username
  /\ row.role = req[r].body.role
  /\ row.password_hash.alg = "bcrypt"
  /\ row.password_hash = hashPassword(req[r].body.password, row.password_hash.salt)
  /\ \A p \in Passwords \ {req[r].body.password} :
       row.password_hash # hashPassword(p, row.password_hash.salt)

\* C13: when register finds its username in the store it answers 409 "user
\* already exists", returns no id and leaves the store as it is; when it inserts
\* a username the store does not hold (with a role the table admits) the store
\* gains exactly one credential, holding the hashed password, whose id is
\* returned with 201; no step changes or removes a stored credential.
C13_RegisterConflictOrCreate ==
  [][/\ users \subseteq users'
     /\ \A r \in Req :
          /\ (CheckUserExistsByUsername(r) /\ Registered(req[r].body.username))
               => /\ req'[r].pc = "done"
                  /\ req'[r].resps = <<Response(StatusConflict, ErrUserAlreadyExists)>>
                  /\ req'[r].result.kind = "none"
                  /\ users' = users
          /\ (CreateUser(r) /\ ~Registered(req[r].body.username)
                /\ req[r].body.role \in RoleSet)
               => /\ \E row \in users' : NewCredential(r, row) /\ users' = users \cup {row}
                  /\ req'[r].pc = "done"
                  /\ req'[r].resps = <<Response(StatusCreated, NilErr)>>
                  /\ \E row \in users' \ users : req'[r].result = IdResult(row.id)]_vars

C13_Witness ==
  /\ \E u \in users :
       /\ u.username = "alice"
       /\ u.role = "admin"
       /\ u.password_hash = hashPassword("pw1", u.password_hash.salt)
  /\ Cardinality(users) = 1
  /\ \E r \in Req :
       /\ Finished(req[r], KeyRegister)
       /\ req[r].body = [form |-> "json", username |-> "alice", role |-> "viewer",
                         password |-> "pw2"]
       /\ req[r].ran = <<"auth.Register">>
       /\ req[r].resps = <<Response(StatusConflict, ErrUserAlreadyExists)>>

-----------------------------------------------------------------------------
(* C14 *)

\* C14: every login that issues no token (its body being well-formed) is
\* answered 401 "invalid credentials", whether the username is unregistered or
\* the password is wrong, and no login is answered 404 or "user not found".
C14_LoginHidesExistence ==
  \A r \in Req :
    LET q == req[r] IN
    q.route = KeyLogin
      => /\ (Finished(q, KeyLogin) /\ q.result.kind # "token")
              => q.resps = <<Response(StatusUnauthorized, ErrInvalidCredentials)>>
         /\ \A i \in DOMAIN q.resps :
              q.resps[i].status # StatusNotFound /\ q.resps[i].msg # ErrUserNotFound

C14_Witness ==
  \E r1, r2 \in Req :
    /\ Finished(req[r1], KeyLogin) /\ Finished(req[r2], KeyLogin)
    /\ ~req[r1].found
    /\ ~Registered(req[r1].body.username)
    /\ req[r2].found
    /\ req[r1].body.password = req[r2].body.password
    /\ req[r2].result.kind = "none"
    /\ req[r1].resps = req[r2].resps
    /\ req[r1].resps = <<Response(StatusUnauthorized, ErrInvalidCredentials)>>

-----------------------------------------------------------------------------
(* C15 *)

\* the stored hash is the digest of this password
HashOf(u, password) == u.password_hash = hashPassword(password, u.password_hash.salt)

\* C15: a login that returned a token did so for a stored credential of its
\* username whose hash is the digest of its password, and the token carries
\* that credential's id and role; a login that found its username but whose
\* password is not the stored one is answered 401 "invalid credentials" and
\* returns no token.
C15_LoginIssuesOnlyOnMatch ==
  \A r \in Req :
    LET q == req[r] IN
    Finished(q, KeyLogin)
      => /\ q.result.kind = "token"
              => /\ Registered(q.body.username)
                 /\ HashOf(RowOf(q.body.username), q.body.password)
                 /\ q.result.token.role = RowOf(q.body.username).role
                 /\ q.result.token.user_id = RowOf(q.body.username).id
                 /\ q.resps = <<Response(StatusOK, NilErr)>>
         /\ (q.found /\ ~HashOf(RowOf(q.body.username), q.body.password))
              => /\ q.result.kind = "none"
                 /\ q.resps = <<Response(StatusUnauthorized, ErrInvalidCredentials)>>

C15_Witness ==
  \E r \in Req :
    /\ Finished(req[r], KeyLogin)
    /\ req[r].body.username = "alice"
    /\ req[r].body.password = "pw1"
    /\ Registered("alice")
    /\ RowOf("alice").role = "admin"
    /\ req[r].result.kind = "token"
    /\ req[r].result.token.role = "admin"

-----------------------------------------------------------------------------
(* C16 *)

\* the instant generateToken fixed the expiry of the token request r returned
IssuedAt(q) == q.expTime - ttl

\* C16: the token a login returns, verified with the server's secret at any
\* instant from its issuance until its expiry, the instant of issuance
\* included, yields the id register gave the credential and the role it was
\* registered with.
C16_LoginThenVerify ==
  \A r \in Req :
    LET q == req[r] IN
    (Finished(q, KeyLogin) /\ q.result.kind = "token")
      => /\ IssuedAt(q) < q.result.token.exp
         /\ \A t \in IssuedAt(q)..(q.result.token.exp - 1) :
              validateToken(q.result.token, ServerSecret, t)
                = [userID |-> RowOf(q.body.username).id,
                   role |-> RowOf(q.body.username).role,
                   err |-> NilErr]

C16_Witness ==
  \E r \in Req :
    /\ Finished(req[r], KeyLogin)
    /\ req[r].result.kind = "token"
    /\ req[r].body.username = "bob"
    /\ Registered("bob")
    /\ RowOf("bob").role = "viewer"
    /\ validateToken(req[r].result.token, ServerSecret, now).userID = RowOf("bob").id
    /\ validateToken(req[r].result.token, ServerSecret, now).role = "viewer"

-----------------------------------------------------------------------------
(* C17 *)

\* C17: every token login returns has exp - iat equal to the configured TTL.
C17_ExpIsIatPlusTTL ==
  \A r \in Req :
    (Finished(req[r], KeyLogin) /\ req[r].result.kind = "token")
      => req[r].result.token.exp - req[r].result.token.iat = ttl

-----------------------------------------------------------------------------
(* C18 *)

BearerJwt(h) == h.n = 2 /\ h.scheme = "Bearer" /\ h.tok.form = "jwt"

\* C18: a bearer token whose header names an algorithm outside the HMAC family
\* is rejected by the key function itself, before any signature is verified
\* with the server's secret: one 401 carrying the key function's error, nothing
\* bound, nothing run after Auth, whatever the token's key, claims and expiry.
C18_OnlyHMACAccepted ==
  \A r \in Req :
    LET q == req[r] IN
    (Ran(q, "Auth") /\ BearerJwt(q.hdr) /\ q.hdr.tok.alg \notin HMACFamily)
      => /\ q.pc = "done"
         /\ q.resps = <<Response(StatusUnauthorized, JwtErrTokenUnverifiable)>>
         /\ q.ctx = EmptyContext
         /\ q.ran = <<"Auth">>

C18_Witness ==
  \E r \in Req :
    LET h == req[r].hdr IN
    /\ req[r].pc = "done"
    /\ BearerJwt(h)
    /\ h.tok.alg = "none"
    /\ h.tok.key = ServerSecret
    /\ WellClaimed(h)
    /\ LiveAt(h, req[r].authAt)
    /\ req[r].resps = <<Response(StatusUnauthorized, JwtErrTokenUnverifiable)>>

-----------------------------------------------------------------------------
(* C19 *)

\* the messages of the "invalid token" kind: ErrInvalidToken itself, and the
\* key function's ErrInvalidToken as jwt.Parse wraps it
InvalidTokenKind == {ErrInvalidToken, JwtErrTokenUnverifiable}

\* C19: when Auth hands a token to verification and rejects it for anything
\* but expiry, the response is one 401 whose error is of the "invalid token"
\* kind.
C19_OtherFailuresInvalidToken ==
  \A r \in Req :
    LET q == req[r] IN
    (Ran(q, "Auth") /\ q.verified /\ q.resps # <<>>
       /\ q.resps[1].msg # ErrExpiredToken)
      => /\ Len(q.resps) = 1
         /\ q.resps[1].status = StatusUnauthorized
         /\ q.resps[1].msg \in InvalidTokenKind

-----------------------------------------------------------------------------
(* C20 *)

\* C20: on every protected route a request without an Authorization header is
\* answered by Auth with 401 "missing token"; the token is not handed to
\* verification, nothing is bound into the context and neither the role gate
\* nor the handler runs.
C20_NoHeaderNoToken ==
  \A r \in Req :
    LET q == req[r] IN
    (q.route \in ProtectedKeys /\ Ran(q, "Auth") /\ q.hdr.n = 0)
      => /\ q.pc = "done"
         /\ q.resps = <<Response(StatusUnauthorized, ErrNoToken)>>
         /\ ~q.verified
         /\ q.ctx = EmptyContext
         /\ q.ran = <<"Auth">>

C20_Witness ==
  \E r \in Req :
    /\ req[r].pc = "done"
    /\ req[r].route = KeyHistory
    /\ req[r].hdr = NoHeader
    /\ ~req[r].verified
    /\ req[r].authAt # NoTime
    /\ req[r].resps = <<Response(StatusUnauthorized, ErrNoToken)>>

-----------------------------------------------------------------------------
(* C21 *)

\* C21: on every protected route a request whose Authorization header is not
\* empty and does not split into exactly two parts is answered by Auth with 401
\* "invalid token format", its token never handed to verification, nothing
\* bound and nothing further run; every header handed to verification has
\* exactly two parts.
C21_MalformedHeaderRejected ==
  \A r \in Req :
    LET q == req[r] IN
    (q.route \in ProtectedKeys /\ Ran(q, "Auth"))
      => /\ (q.hdr.n # 0 /\ q.hdr.n # 2)
              => /\ q.pc = "done"
                 /\ q.resps = <<Response(StatusUnauthorized, ErrInvalidTokenFormat)>>
                 /\ ~q.verified
                 /\ q.ctx = EmptyContext
                 /\ q.ran = <<"Auth">>
         /\ q.verified => q.hdr.n = 2

C21_Witness ==
  \E r \in Req :
    /\ req[r].pc = "done"
    /\ req[r].route = KeyCreate
    /\ req[r].hdr.n = 3
    /\ req[r].hdr.scheme = "Bearer"
    /\ ValidAt([req[r].hdr EXCEPT !.n = 2], req[r].authAt)
    /\ ~req[r].verified
    /\ req[r].ran = <<"Auth">>
    /\ req[r].resps = <<Response(StatusUnauthorized, ErrInvalidTokenFormat)>>

-----------------------------------------------------------------------------
(* C22 *)

\* C22: when RequireRole runs on a context that holds no role, whatever its
\* permitted-role set, the request is answered 403 "role not found in context"
\* and ends there: the handler behind the gate never runs and the context is
\* left as it was.
C22_AbsentRoleDenied ==
  \A r \in Req :
    LET q == req[r] IN
    (Ran(q, "RequireRole") /\ q.ctx.role = Unset)
      => /\ q.pc = "done"
         /\ q.resps = <<Response(StatusForbidden, ErrRoleNotFound)>>
         /\ q.ran = <<"RequireRole">>
         /\ q.ctx = EmptyContext

C22_Witness ==
  \E r \in Req :
    /\ req[r].pc = "done"
    /\ req[r].ctx.role = Unset
    /\ routes[req[r].route][1].roles = GateRoles
    /\ req[r].ran = <<"RequireRole">>
    /\ Denied(req[r], ErrRoleNotFound)

-----------------------------------------------------------------------------
(* C23 *)

PublicKeys == {KeyGetAll, KeyGetByID}

\* C23: the chain of GET /api/items and of GET /api/items/:id is the handler
\* alone, with neither Auth nor RequireRole in it, and every request sent to
\* these routes, whatever its Authorization header, ends with exactly its
\* handler run and no 401 or 403.
C23_PublicReadsReachHandler ==
  /\ \A k \in PublicKeys : ChainNames(k) = <<EndpointHandler(k)>>
  /\ \A r \in Req :
       LET q == req[r] IN
       (q.route \in PublicKeys /\ q.pc = "done")
         => /\ q.ran = <<EndpointHandler(q.route)>>
            /\ Len(q.resps) = 1
            /\ q.resps[1].status \notin {StatusUnauthorized, StatusForbidden}
            /\ q.ctx = EmptyContext

-----------------------------------------------------------------------------
(* C24 *)

\* C24: in every reachable state the changed_by of every history record is the
\* id of a row of users: a mutation whose session names an actor that is not a
\* stored user writes no record.
C24_ChangedByIsStoredUser ==
  \A k \in DOMAIN item_history :
    \E u \in users : u.id = item_history[k].changed_by

C24_Witness ==
  /\ item_history # <<>>
  /\ \E r \in Req :
       /\ req[r].pc = "done"
       /\ req[r].ctx.userID = "u0"
       /\ \E c \in Conns : conn[c] = "u0"
       /\ LastStatus(req[r]) = StatusInternalServerError

-----------------------------------------------------------------------------
(* C25 *)

ClosedRoles == {"admin", "manager", "viewer"}

\* C25: in every reachable state every stored credential has a role among
\* admin, manager and viewer; a registration with any other role is answered
\* without an id and stores nothing; and every token login has returned carries
\* a role among the three.
C25_RolesClosed ==
  /\ \A u \in users : u.role \in ClosedRoles
  /\ \A r \in Req :
       LET q == req[r] IN
       /\ (Finished(q, KeyRegister) /\ q.body.role \notin ClosedRoles)
            => /\ q.result.kind = "none"
               /\ LastStatus(q) \notin {StatusOK, StatusCreated}
       /\ (Finished(q, KeyLogin) /\ q.result.kind = "token")
            => q.result.token.role \in ClosedRoles

C25_Witness ==
  \E r \in Req :
    /\ Finished(req[r], KeyRegister)
    /\ req[r].body.role = "root"
    /\ req[r].calls = <<>>
    /\ req[r].resps = <<Response(StatusInternalServerError, ErrInternal)>>
    /\ ~Registered(req[r].body.username)

-----------------------------------------------------------------------------
(* C26 *)

\* what Auth left of a verification: the identity it bound, or its rejection
Verdict(q) == IF q.ctx = EmptyContext THEN <<q.ctx, q.resps>> ELSE <<q.ctx, <<>>>>

\* C26: verification consults only the token, the secret and the clock.  A
\* token signed with the server's secret that carries a UUID and a role and has
\* not expired is accepted and binds exactly its own user_id and role, whether
\* or not the users table holds that id; and two verifications of one header,
\* at instants on the same side of its expiry, end in the same verdict,
\* whatever was served in between.
C26_VerifyStateless ==
  /\ \A r \in Req :
       LET q == req[r] IN
       (Ran(q, "Auth") /\ WellSigned(q.hdr) /\ LiveAt(q.hdr, q.authAt)
          /\ q.hdr.tok.user_id \in WellFormedUUIDs /\ q.hdr.tok.role # ClaimAbsent)
         => q.ctx = [userID |-> q.hdr.tok.user_id, role |-> q.hdr.tok.role]
  /\ \A r1, r2 \in Req :
       LET q1 == req[r1]
           q2 == req[r2]
       IN (Ran(q1, "Auth") /\ Ran(q2, "Auth") /\ q1.hdr = q2.hdr
             /\ LiveAt(q1.hdr, q1.authAt) = LiveAt(q2.hdr, q2.authAt))
            => Verdict(q1) = Verdict(q2)

C26_Witness ==
  \E r1, r2 \in Req :
    /\ r1 # r2
    /\ req[r1].hdr = Bearer(Jwt("u0", "viewer", MaxTime + 1))
    /\ req[r2].hdr = req[r1].hdr
    /\ ~\E u \in users : u.id = "u0"
    /\ req[r1].authAt # NoTime
    /\ req[r2].authAt > req[r1].authAt
    /\ req[r1].ctx = [userID |-> "u0", role |-> "viewer"]
    /\ req[r2].ctx = req[r1].ctx
    /\ req[r1].pc = "done"
    /\ LastStatus(req[r1]) = StatusInternalServerError

-----------------------------------------------------------------------------
(* C27 *)

\* C27: once the shutdown signal has been received, the process exits only by
\* the return of main, after s.Shutdown has returned and the master and every
\* slave connection have been closed: the return of ListenAndServe that
\* Shutdown causes does not end the process.
C27_ShutdownCompletes ==
  proc.exited
    => /\ proc.main = "returned"
       /\ proc.code = 0
       /\ proc.master = "closed"
       /\ \A i \in DOMAIN proc.slaves : proc.slaves[i] = "closed"

-----------------------------------------------------------------------------
(* C28 *)

\* the records of one item, and the record of the mutation before record k
RecordsOf(id) == { k \in DOMAIN item_history : item_history[k].item_id = id }
Preceding(k) ==
  { j \in RecordsOf(item_history[k].item_id) :
      j < k /\ \A m \in RecordsOf(item_history[k].item_id) : m < k => m <= j }

\* a DELETE of request r on connection c is about to remove a row and log it
DeletePending(r, c) ==
  InRepo(r, "DeleteItem") /\ ItemExists(req[r].id) /\ TriggerOK(conn[c])

-----------------------------------------------------------------------------
(* C29 *)

\* C29: the UPDATE or DELETE of an id that no item row has is answered 404 with
\* the repository's "item not found" under the service's prefix, and leaves the
\* items and the history records exactly as they were.
C29_MissingItemNotFound ==
  [][\A r \in Req, c \in Conns :
       ((UpdateItem(r, c) \/ DeleteItem(r, c)) /\ ~ItemExists(req[r].id))
         => /\ req'[r].pc = "done"
            /\ LastStatus(req'[r]) = StatusNotFound
            /\ req'[r].resps[Len(req'[r].resps)].msg
                 \in {"update item: item not found", "delete item: item not found"}
            /\ Len(req'[r].resps) = Len(req[r].resps) + 1
            /\ UNCHANGED <<items, item_history, nextItemId>>]_vars

C29_Witness ==
  \E r \in Req :
    /\ req[r].pc = "done"
    /\ req[r].route = KeyDelete
    /\ req[r].id # BadId
    /\ ~ItemExists(req[r].id)
    /\ items = {StockedItem}
    /\ Len(item_history) = 1
    /\ req[r].resps = <<Response(StatusNotFound, "delete item: item not found")>>

-----------------------------------------------------------------------------
(* C30 *)

Handled(q) ==
  /\ q.route \in {KeyCreate, KeyUpdate}
  /\ Ran(q, EndpointHandler(q.route))
  /\ q.body.form = "json"

\* C30: a create or update whose body has a name and a quantity of zero or more
\* is never answered with a validation error; one whose name is empty or whose
\* quantity is negative is answered 400 "validation error" and ends there,
\* whether or not an actor is bound, with no call of the service.
C30_QuantityValidation ==
  \A r \in Req :
    LET q == req[r] IN
    Handled(q)
      => /\ (q.body.name # "" /\ q.body.quantity >= 0)
              => \A i \in DOMAIN q.resps : q.resps[i].msg # "validation error"
         /\ (q.body.name = "" \/ q.body.quantity < 0)
              => /\ q.pc = "done"
                 /\ q.resps = <<Response(StatusBadRequest, "validation error")>>
                 /\ q.calls = <<>>

=============================================================================
